---- MODULE Spec2Model ----
(***************************************************************************)
(* Model of temp/gen_axes_icon.py: the icon renderer create_3d_axis_icon,  *)
(* the variant generators built on _save_both, the grid composer           *)
(* create_reference_grid and the __main__ sequence.                        *)
(*                                                                         *)
(* Representation.                                                         *)
(*  - A coordinate is an integer k standing for the float k/Den.           *)
(*  - An opacity is an integer percentage (1.0 is 100, 0.35 is 35).        *)
(*  - A Python str that the code lowers is a sequence of one-character     *)
(*    strings; a file path is a sequence of tokens whose extension token   *)
(*    is ".png" or ".svg".                                                 *)
(*  - An optional value is a sequence: None is << >>, a value x is <<x>>.  *)
(*  - A mapping (the parallelogram dict) is a record; an absent key is     *)
(*    the optional None in that field.                                     *)
(***************************************************************************)
EXTENDS Integers, Sequences, FiniteSets

VARIABLES
    pc,        \* index in Program of the call being made (or next to make)
    phase,     \* position inside the current call; "idle" between calls
    status,    \* "running", "failed" (uncaught exception), "done"
    call,      \* arguments of the current call
    fig,       \* artists of the icon figure being drawn
    slots,     \* the grid's subplots handled so far, in row-major order
    open_figs, \* number of pyplot figures open
    disk,      \* path -> content, for every file on disk
    corrupt,   \* paths on disk that the image reader cannot decode
    written    \* paths written by this run, in order

vars == <<pc, phase, status, call, fig, slots, open_figs, disk, corrupt, written>>

(***************************************************************************)
(* Bounds                                                                  *)
(***************************************************************************)
\* coordinates are multiples of 1/Den
Den == 2
\* at most this many files on disk are undecodable when the grid is composed
MaxCorrupt == 1

(***************************************************************************)
(* Values                                                                  *)
(***************************************************************************)
None == << >>
Some(x) == <<x>>

Abs(n) == IF n < 0 THEN 0 - n ELSE n

Range(s) == {s[i] : i \in DOMAIN s}

FullAlpha == 100
DefaultDimAlpha == 35

UpperChars == <<"A","B","C","D","E","F","G","H","I","J","K","L","M",
                "N","O","P","Q","R","S","T","U","V","W","X","Y","Z">>
LowerChars == <<"a","b","c","d","e","f","g","h","i","j","k","l","m",
                "n","o","p","q","r","s","t","u","v","w","x","y","z">>

\* str.lower() on one character
LowerChar(c) ==
    IF \E i \in DOMAIN UpperChars : UpperChars[i] = c
    THEN LowerChars[CHOOSE i \in DOMAIN UpperChars : UpperChars[i] = c]
    ELSE c

\* str.lower()
lower(s) == [i \in DOMAIN s |-> LowerChar(s[i])]

\* str.replace('.png', '.svg') on a path
replace_png_svg(path) == [i \in DOMAIN path |-> IF path[i] = ".png" THEN ".svg" ELSE path[i]]

S_x == <<"x">>
S_y == <<"y">>
S_z == <<"z">>
S_all_dim == <<"a","l","l","_","d","i","m">>
S_dim_all == <<"d","i","m","_","a","l","l">>
S_none == <<"n","o","n","e">>
S_png == <<"p","n","g">>
S_svg == <<"s","v","g">>

(***************************************************************************)
(* create_3d_axis_icon: per-axis opacity                                   *)
(***************************************************************************)
\* a slip that tests the Y axis against 'x'
AxisAlphaSlip(normal_axis, dim_alpha) ==
    IF normal_axis = None
    THEN <<FullAlpha, FullAlpha, FullAlpha>>
    ELSE IF normal_axis[1].isstr /\ lower(normal_axis[1].s) \in {S_all_dim, S_dim_all, S_none}
    THEN <<dim_alpha, dim_alpha, dim_alpha>>
    ELSE LET na == lower(normal_axis[1].s) IN
         << IF na = S_x THEN FullAlpha ELSE dim_alpha,
            IF na = S_x THEN FullAlpha ELSE dim_alpha,
            IF na = S_z THEN FullAlpha ELSE dim_alpha >>

\* <<alpha_x, alpha_y, alpha_z>>; a selector is [isstr, s] with s its str()
AxisAlpha(normal_axis, dim_alpha) ==
    IF normal_axis = None
    THEN <<FullAlpha, FullAlpha, FullAlpha>>
    ELSE IF normal_axis[1].isstr /\ lower(normal_axis[1].s) \in {S_all_dim, S_dim_all, S_none}
    THEN <<dim_alpha, dim_alpha, dim_alpha>>
    ELSE LET na == lower(normal_axis[1].s) IN
         << IF na = S_x THEN FullAlpha ELSE dim_alpha,
            IF na = S_y THEN FullAlpha ELSE dim_alpha,
            IF na = S_z THEN FullAlpha ELSE dim_alpha >>

(***************************************************************************)
(* create_3d_axis_icon: guide lines                                        *)
(***************************************************************************)
O == <<0, 0, 0>>

Line(tag, p, q, style) == [tag |-> tag, p |-> p, q |-> q, style |-> style]

\* abs(v - w) < 1e-9; the grid step 1/Den is far above the tolerance, so on
\* the grid the test is met only at distance 0
IsClose(v, w) == Abs(v - w) < 1

\* gx, gy, gz = guide_to, with the except branch
UnpackGuide(g) == IF Len(g) = 3 THEN g ELSE O

ones_axes(target) == SelectSeq(<<1, 2, 3>>, LAMBDA i : IsClose(target[i], Den))
zeros_axes(target) == SelectSeq(<<1, 2, 3>>, LAMBDA i : IsClose(target[i], 0))

\* the start point chosen for axis index i (1 for x, 2 for y, otherwise z)
UnitPoint(i) == IF i = 1 THEN <<Den, 0, 0>> ELSE IF i = 2 THEN <<0, Den, 0>> ELSE <<0, 0, Den>>

\* a condition that forgets the zeros test
AuxConditionOnesOnly(ones, zeros) == Len(ones) = 2

AuxCondition(ones, zeros) == Len(ones) = 2 /\ Len(zeros) = 1

AuxLines(target, style) ==
    LET ones == ones_axes(target)
        zeros == zeros_axes(target)
    IN IF AuxCondition(ones, zeros)
       THEN [k \in DOMAIN ones |-> Line("aux", UnitPoint(ones[k]), target, style)]
       ELSE << >>

ExtraLines(extra_guides, style) ==
    IF extra_guides = None \/ extra_guides[1] = << >>
    THEN << >>
    ELSE [k \in DOMAIN extra_guides[1] |->
            Line("extra", extra_guides[1][k][1], extra_guides[1][k][2], style)]

\* extras drawn outside the guide_to test
GuideLinesExtrasAlways(c) ==
    IF c.guide_to = None
    THEN ExtraLines(c.extra_guides, c.guide_style_aux)
    ELSE LET t == UnpackGuide(c.guide_to[1]) IN
         <<Line("main", O, t, c.guide_style_main)>>
           \o AuxLines(t, c.guide_style_aux)
           \o ExtraLines(c.extra_guides, c.guide_style_aux)

\* the lines plotted by the guide block, in plotting order
GuideLines(c) ==
    IF c.guide_to = None
    THEN << >>
    ELSE LET t == UnpackGuide(c.guide_to[1]) IN
         <<Line("main", O, t, c.guide_style_main)>>
           \o AuxLines(t, c.guide_style_aux)
           \o ExtraLines(c.extra_guides, c.guide_style_aux)

(***************************************************************************)
(* create_3d_axis_icon: parallelogram                                      *)
(***************************************************************************)
DefaultVec == <<0, 0, 0>>
EdgeStyle == "--"

Get(opt, default) == IF opt = None THEN default ELSE opt[1]

is_unit_axis(pt) == pt \in {<<Den, 0, 0>>, <<0, Den, 0>>, <<0, 0, Den>>}

\* a test that forgets that the other end must be the origin
SkipEdgeAnyUnit(skip_axis_edges, p, q) ==
    skip_axis_edges /\ (is_unit_axis(q) \/ is_unit_axis(p))

SkipEdge(skip_axis_edges, p, q) ==
    skip_axis_edges /\ ((p = O /\ is_unit_axis(q)) \/ (q = O /\ is_unit_axis(p)))

\* v[0], v[1], v[2] raises IndexError on a vector with fewer than three components
VecRaises(v) == Len(v) < 3

ParaRaises(p) == VecRaises(Get(p.v1, DefaultVec)) \/ VecRaises(Get(p.v2, DefaultVec))

Vertices(p) ==
    LET v1 == Get(p.v1, DefaultVec)
        v2 == Get(p.v2, DefaultVec)
        A == <<v1[1], v1[2], v1[3]>>
        D == <<v2[1], v2[2], v2[3]>>
        B == <<A[1] + D[1], A[2] + D[2], A[3] + D[3]>>
    IN <<O, A, B, D>>

Edges(p) ==
    LET V == Vertices(p) IN << <<V[1], V[2]>>, <<V[2], V[3]>>, <<V[3], V[4]>>, <<V[4], V[1]>> >>

\* the edges stroked, in order
StrokedEdges(p) ==
    LET skip_axis_edges == Get(p.skip_axis_edges, TRUE)
        keep == SelectSeq(Edges(p), LAMBDA e : ~SkipEdge(skip_axis_edges, e[1], e[2]))
    IN [k \in DOMAIN keep |-> Line("edge", keep[k][1], keep[k][2], EdgeStyle)]

(***************************************************************************)
(* create_3d_axis_icon: saving                                             *)
(***************************************************************************)
IsSvg(c) == lower(c.format) = S_svg

SavedPath(c) == IF IsSvg(c) THEN replace_png_svg(c.output_path) ELSE c.output_path

EmptyFig == [alpha |-> << >>, guides |-> << >>, poly |-> << >>, edges |-> << >>,
             size |-> 0, dpi |-> 0, guide_color |-> ""]

Store(d, path, content) ==
    [q \in DOMAIN d \cup {path} |-> IF q = path THEN content ELSE d[q]]

(***************************************************************************)
(* Calls                                                                   *)
(***************************************************************************)
StrSel(s) == Some([isstr |-> TRUE, s |-> s])

\* the keyword defaults of create_3d_axis_icon
Defaults ==
    [fn |-> "create_3d_axis_icon",
     output_path |-> <<"3d_axis_icon", ".png">>, format |-> S_png,
     size |-> 400, dpi |-> 150,
     normal_axis |-> None, dim_alpha |-> DefaultDimAlpha,
     guide_to |-> None, guide_color |-> "#222222",
     guide_style_main |-> "-", guide_style_aux |-> "--",
     parallelogram |-> None, extra_guides |-> None]

\* the integer literal point (x, y, z) on the coordinate grid
Pt(x, y, z) == <<x * Den, y * Den, z * Den>>

\* a variant that forgets the vector call
save_both_png_only(base_name, kwargs) ==
    << [kwargs EXCEPT !.output_path = <<base_name, ".png">>, !.format = S_png] >>

\* the two calls made by _save_both(base_name, **kwargs)
save_both(base_name, kwargs) ==
    << [kwargs EXCEPT !.output_path = <<base_name, ".png">>, !.format = S_png],
       [kwargs EXCEPT !.output_path = <<base_name, ".svg">>, !.format = S_svg] >>

create_multiple_styles ==
    save_both("axis_standard", [Defaults EXCEPT !.size = 400])
      \o save_both("axis_hires", [Defaults EXCEPT !.size = 800, !.dpi = 300])

FocusKw(axis) == [Defaults EXCEPT !.size = 400, !.normal_axis = StrSel(axis), !.dim_alpha = 35]

create_focus_variants ==
    save_both("axis_focus_x", FocusKw(S_x))
      \o save_both("axis_focus_y", FocusKw(S_y))
      \o save_both("axis_focus_z", FocusKw(S_z))

DimKw == [Defaults EXCEPT !.size = 400, !.normal_axis = StrSel(S_all_dim), !.dim_alpha = 35]

GuideKw(target) == [DimKw EXCEPT !.guide_to = Some(target), !.guide_color = "#b8860b"]

create_all_dim_with_guides ==
    save_both("axis_dim_011", GuideKw(Pt(0, 1, 1)))
      \o save_both("axis_dim_101", GuideKw(Pt(1, 0, 1)))
      \o save_both("axis_dim_110", GuideKw(Pt(1, 1, 0)))

PlaneKw(v1, v2) ==
    [DimKw EXCEPT !.parallelogram =
        Some([v1 |-> Some(v1), v2 |-> Some(v2), skip_axis_edges |-> Some(TRUE)])]

create_parallelogram_variants ==
    save_both("axis_plane_001_010", PlaneKw(Pt(0, 0, 1), Pt(0, 1, 0)))
      \o save_both("axis_plane_010_100", PlaneKw(Pt(0, 1, 0), Pt(1, 0, 0)))
      \o save_both("axis_plane_100_001", PlaneKw(Pt(1, 0, 0), Pt(0, 0, 1)))

create_parallelogram_variants_composite ==
    save_both("axis_plane_011_100", PlaneKw(Pt(0, 1, 1), Pt(1, 0, 0)))
      \o save_both("axis_plane_101_010", PlaneKw(Pt(1, 0, 1), Pt(0, 1, 0)))
      \o save_both("axis_plane_110_001", PlaneKw(Pt(1, 1, 0), Pt(0, 0, 1)))

SpaceDiagonalExtra ==
    << <<Pt(1, 0, 0), Pt(1, 1, 1)>>,
       <<Pt(0, 1, 0), Pt(1, 1, 1)>>,
       <<Pt(0, 0, 1), Pt(1, 1, 1)>> >>

SpaceDiagonalKw ==
    [GuideKw(Pt(1, 1, 1)) EXCEPT !.extra_guides = Some(SpaceDiagonalExtra)]

\* a variant that reuses the base name of another variant
create_space_diagonal_variant_collides == save_both("axis_dim_110", SpaceDiagonalKw)

create_space_diagonal_variant == save_both("axis_diag_111", SpaceDiagonalKw)

GridCall == [fn |-> "create_reference_grid"]

\* before __main__ has made its first call
NoCall == [fn |-> "none"]

\* the calls of the __main__ block, in order
Program ==
    <<Defaults>>
      \o create_multiple_styles
      \o create_focus_variants
      \o create_all_dim_with_guides
      \o create_parallelogram_variants
      \o create_parallelogram_variants_composite
      \o create_space_diagonal_variant
      \o <<GridCall>>

(***************************************************************************)
(* create_reference_grid                                                   *)
(***************************************************************************)
names ==
    <<"axis_focus_x", "axis_focus_y", "axis_focus_z", "axis_diag_111",
      "axis_dim_011", "axis_dim_101", "axis_dim_110",
      "axis_plane_001_010", "axis_plane_010_100", "axis_plane_100_001",
      "axis_plane_011_100", "axis_plane_101_010", "axis_plane_110_001">>

GridRows == 4
GridCols == 4

GridPng == <<"axis_reference_grid", ".png">>
GridSvg == <<"axis_reference_grid", ".svg">>

\* mpimg.imread raises on a missing or undecodable file
ImreadRaises(path) == path \notin DOMAIN disk \/ path \in corrupt

(***************************************************************************)
(* Actions                                                                 *)
(***************************************************************************)
\* an exception handled by moving on to the next call
RaiseIsolated ==
    /\ status' = "running"
    /\ phase' = "idle"
    /\ pc' = pc + 1
    /\ open_figs' = 0
    /\ UNCHANGED <<call, fig, slots, disk, corrupt, written>>

\* an exception no handler catches: it leaves every frame up to the script
Raise ==
    /\ status' = "failed"
    /\ UNCHANGED <<pc, phase, call, fig, slots, open_figs, disk, corrupt, written>>

\* an IndexError swallowed like the failures of the cosmetic calls
IndexErrorSwallowed ==
    /\ phase' = "save"
    /\ UNCHANGED <<pc, status, call, fig, slots, open_figs, disk, corrupt, written>>

\* v1[2] or v2[2] on a short vector: IndexError, with no handler around it
IndexError == Raise

\* a close that leaves the figure open
plt_close_leak(n) == n

\* plt.close() on the current figure, plt.close(fig) on the grid's
plt_close(n) == n - 1

\* normal return to the __main__ block
Return ==
    /\ phase' = "idle"
    /\ pc' = pc + 1

\* __main__ makes its next call
Call ==
    /\ status = "running" /\ phase = "idle" /\ pc <= Len(Program)
    /\ call' = Program[pc]
    /\ phase' = "enter"
    /\ UNCHANGED <<pc, status, fig, slots, open_figs, disk, corrupt, written>>

\* the script ends after its last call
Exit ==
    /\ status = "running" /\ phase = "idle" /\ pc > Len(Program)
    /\ status' = "done"
    /\ UNCHANGED <<pc, phase, call, fig, slots, open_figs, disk, corrupt, written>>

IsIcon == call.fn = "create_3d_axis_icon"
IsGrid == call.fn = "create_reference_grid"

\* figure, 3D axes, arrows, labels, origin marker
OpenFigure ==
    /\ status = "running" /\ phase = "enter" /\ IsIcon
    /\ open_figs' = open_figs + 1
    /\ fig' = [EmptyFig EXCEPT !.alpha = AxisAlpha(call.normal_axis, call.dim_alpha),
                               !.size = call.size, !.dpi = call.dpi,
                               !.guide_color = call.guide_color]
    /\ phase' = "guides"
    /\ UNCHANGED <<pc, status, call, slots, disk, corrupt, written>>

DrawGuides ==
    /\ status = "running" /\ phase = "guides" /\ IsIcon
    /\ fig' = [fig EXCEPT !.guides = GuideLines(call)]
    /\ phase' = "para"
    /\ UNCHANGED <<pc, status, call, slots, open_figs, disk, corrupt, written>>

DrawParallelogram ==
    /\ status = "running" /\ phase = "para" /\ IsIcon
    /\ IF call.parallelogram = None
       THEN /\ phase' = "save"
            /\ UNCHANGED <<pc, status, call, fig, slots, open_figs, disk, corrupt, written>>
       ELSE IF ParaRaises(call.parallelogram[1])
       THEN IndexError
       ELSE /\ fig' = [fig EXCEPT !.poly = <<Vertices(call.parallelogram[1])>>,
                                  !.edges = StrokedEdges(call.parallelogram[1])]
            /\ phase' = "save"
            /\ UNCHANGED <<pc, status, call, slots, open_figs, disk, corrupt, written>>

\* plt.savefig writes the file, or fails on the filesystem
SaveFig ==
    /\ status = "running" /\ phase = "save" /\ IsIcon
    /\ \/ /\ disk' = Store(disk, SavedPath(call), fig)
          /\ corrupt' = corrupt \ {SavedPath(call)}
          /\ written' = Append(written, SavedPath(call))
          /\ phase' = "close"
          /\ UNCHANGED <<pc, status, call, fig, slots, open_figs>>
       \/ Raise

CloseFigure ==
    /\ status = "running" /\ phase = "close" /\ IsIcon
    /\ open_figs' = plt_close(open_figs)
    /\ fig' = EmptyFig
    /\ Return
    /\ UNCHANGED <<status, call, slots, disk, corrupt, written>>

\* plt.subplots(nrows=4, ncols=4)
GridOpen ==
    /\ status = "running" /\ phase = "enter" /\ IsGrid
    /\ open_figs' = open_figs + 1
    /\ slots' = << >>
    /\ phase' = "slots"
    /\ UNCHANGED <<pc, status, call, fig, disk, corrupt, written>>

\* an except clause that re-raises
OnImreadErrorPropagates == Raise

\* except Exception: pass
OnImreadError ==
    /\ slots' = Append(slots, None)
    /\ UNCHANGED <<pc, phase, status, call, fig, open_figs, disk, corrupt, written>>

\* one iteration of the loop over the raveled axes
GridSlot ==
    /\ status = "running" /\ phase = "slots" /\ IsGrid
    /\ Len(slots) < GridRows * GridCols
    /\ LET i == Len(slots) IN
       IF i < Len(names)
       THEN IF ImreadRaises(<<names[i + 1], ".png">>)
            THEN OnImreadError
            ELSE /\ slots' = Append(slots, Some(names[i + 1]))
                 /\ UNCHANGED <<pc, phase, status, call, fig, open_figs, disk, corrupt, written>>
       ELSE /\ slots' = Append(slots, None)
            /\ UNCHANGED <<pc, phase, status, call, fig, open_figs, disk, corrupt, written>>

GridLoopEnd ==
    /\ status = "running" /\ phase = "slots" /\ IsGrid
    /\ Len(slots) = GridRows * GridCols
    /\ phase' = "save_png"
    /\ UNCHANGED <<pc, status, call, fig, slots, open_figs, disk, corrupt, written>>

GridSave(at, path, next) ==
    /\ status = "running" /\ phase = at /\ IsGrid
    /\ \/ /\ disk' = Store(disk, path, [slots |-> slots])
          /\ corrupt' = corrupt \ {path}
          /\ written' = Append(written, path)
          /\ phase' = next
          /\ UNCHANGED <<pc, status, call, fig, slots, open_figs>>
       \/ Raise

GridSavePng == GridSave("save_png", GridPng, "save_svg")
GridSaveSvg == GridSave("save_svg", GridSvg, "close")

GridClose ==
    /\ status = "running" /\ phase = "close" /\ IsGrid
    /\ open_figs' = plt_close(open_figs)
    /\ Return
    /\ UNCHANGED <<status, call, fig, slots, disk, corrupt, written>>

IconNext == OpenFigure \/ DrawGuides \/ DrawParallelogram \/ SaveFig \/ CloseFigure
GridNext == GridOpen \/ GridSlot \/ GridLoopEnd \/ GridSavePng \/ GridSaveSvg \/ GridClose

(***************************************************************************)
(* Specification of the full run (__main__)                                *)
(***************************************************************************)
\* what an earlier run left behind: content unknown to this run
StaleContent == [EmptyFig EXCEPT !.guide_color = "stale"]

AllOutputs == {SavedPath(Program[i]) : i \in 1..(Len(Program) - 1)} \cup {GridPng, GridSvg}

Init ==
    /\ pc = 1
    /\ phase = "idle"
    /\ status = "running"
    /\ call = NoCall
    /\ fig = EmptyFig
    /\ slots = << >>
    /\ open_figs = 0
    /\ disk \in {[q \in {} |-> StaleContent], [q \in AllOutputs |-> StaleContent]}
    /\ corrupt = {}
    /\ written = << >>

Next == Call \/ Exit \/ IconNext \/ GridNext

Spec == Init /\ [][Next]_vars

(***************************************************************************)
(* Specification of one create_3d_axis_icon call on bounded arguments      *)
(***************************************************************************)
Selectors ==
    {None, StrSel(S_x), StrSel(S_y), StrSel(S_z), StrSel(S_all_dim), StrSel(S_none),
     StrSel(S_dim_all), StrSel(<<"X">>), StrSel(<<"w">>),
     Some([isstr |-> FALSE, s |-> <<"1">>])}

DimAlphas == {35, 100}

Formats == {S_png, S_svg, <<"S","V","G">>}

Coords == 0..Den

\* guide targets: absent, a pair (not unpackable into three), any grid point
GuideTargets ==
    {None, Some(<<Den, Den>>)} \cup {Some(<<x, y, z>>) : x \in Coords, y \in Coords, z \in Coords}

ExtraGuides == {None, Some(<< <<Pt(1, 0, 0), Pt(1, 1, 0)>> >>), Some(SpaceDiagonalExtra)}

\* edge vectors: zero, the units, the face diagonals, a negative unit, and a
\* vector with two components only
ParaVecs ==
    {Pt(0, 0, 0), Pt(1, 0, 0), Pt(0, 1, 0), Pt(0, 0, 1),
     Pt(0, 1, 1), Pt(1, 0, 1), Pt(1, 1, 0), Pt(-1, 0, 0), <<Den, 0>>}

Parallelograms ==
    {None} \cup
    {Some([v1 |-> a, v2 |-> b, skip_axis_edges |-> k]) :
        a \in {None} \cup {Some(v) : v \in ParaVecs},
        b \in {Some(v) : v \in ParaVecs},
        k \in {None, Some(TRUE), Some(FALSE)}}

GoodPlane == PlaneKw(Pt(1, 0, 0), Pt(0, 0, 1)).parallelogram
BadPlane == PlaneKw(<<Den, 0>>, Pt(0, 0, 1)).parallelogram

\* the argument sets: each block of the renderer is driven over its whole
\* bounded input set, the other blocks over a few values
IconCalls ==
    {[Defaults EXCEPT !.normal_axis = n, !.dim_alpha = d, !.format = f] :
        n \in Selectors, d \in DimAlphas, f \in Formats}
    \cup
    {[Defaults EXCEPT !.guide_to = g, !.extra_guides = e, !.parallelogram = q] :
        g \in GuideTargets, e \in ExtraGuides, q \in {None, GoodPlane, BadPlane}}
    \cup
    {[Defaults EXCEPT !.parallelogram = q, !.guide_to = g] :
        q \in Parallelograms, g \in {None, Some(<<Den, Den>>), Some(Pt(1, 1, 0))}}
    \cup
    {Program[i] : i \in 1..(Len(Program) - 1)}

InitIcon ==
    /\ pc = 0
    /\ phase = "enter"
    /\ status = "running"
    /\ call \in IconCalls
    /\ fig = EmptyFig
    /\ slots = << >>
    /\ open_figs = 0
    /\ disk = [q \in {} |-> StaleContent]
    /\ corrupt = {}
    /\ written = << >>

SpecIcon == InitIcon /\ [][IconNext]_vars

(***************************************************************************)
(* Specification of create_reference_grid on an arbitrary directory        *)
(***************************************************************************)
GridSources == {<<names[i], ".png">> : i \in DOMAIN names}

InitGrid ==
    /\ pc = Len(Program)
    /\ phase = "enter"
    /\ status = "running"
    /\ call = GridCall
    /\ fig = EmptyFig
    /\ slots = << >>
    /\ open_figs = 0
    /\ \E present \in SUBSET GridSources : disk = [q \in present |-> StaleContent]
    /\ corrupt \in {c \in SUBSET (DOMAIN disk) : Cardinality(c) <= MaxCorrupt}
    /\ written = << >>

SpecGrid == InitGrid /\ [][GridNext]_vars

(***************************************************************************)
(* Properties                                                              *)
(***************************************************************************)
IsPrefix(a, b) == Len(a) <= Len(b) /\ \A i \in DOMAIN a : a[i] = b[i]

NoDuplicates(seq) == \A i, j \in DOMAIN seq : seq[i] = seq[j] => i = j

WasWritten(path) == path \in Range(written)

\* the guide block of the current icon call has run
GuidesDrawn == IsIcon /\ phase \in {"para", "save", "close"}

\* the parallelogram block of the current icon call has run without raising
ParaDrawn == IsIcon /\ phase \in {"save", "close"} /\ call.parallelogram # None

\* the guide target is a triple
TargetIsTriple == call.guide_to # None /\ Len(call.guide_to[1]) = 3

AuxDrawn == SelectSeq(fig.guides, LAMBDA l : l.tag = "aux")
DashedGuides == SelectSeq(fig.guides, LAMBDA l : l.style = "--")
SolidGuides == SelectSeq(fig.guides, LAMBDA l : l.style = "-")

OnesOf(t) == {i \in 1..3 : t[i] = Den}

\* one dashed segment from the unit point of each axis in axes to t, and no other
AuxAreFrom(axes, t) ==
    /\ Len(AuxDrawn) = Cardinality(axes)
    /\ \A i \in axes : Line("aux", UnitPoint(i), t, "--") \in Range(AuxDrawn)
    /\ \A k \in DOMAIN AuxDrawn : \E i \in axes : AuxDrawn[k] = Line("aux", UnitPoint(i), t, "--")

\* C1 as stated: a target with exactly two coordinates equal to 1 gets exactly
\* two auxiliary dashed segments, one from each unit point whose coordinate is
\* 1 to the target, whatever the remaining coordinate is; every other target
\* gets none.
C1_TwoOnesGetTwoAux ==
    (GuidesDrawn /\ TargetIsTriple) =>
        LET t == call.guide_to[1] IN
        IF Cardinality(OnesOf(t)) = 2 THEN AuxAreFrom(OnesOf(t), t) ELSE AuxDrawn = << >>

\* C1 amended: the two auxiliary dashed segments are produced exactly when two
\* coordinates equal 1 and the remaining coordinate equals 0; every other
\* target, (1, 1, 0.5) included, gets none.
C1_TwoOnesOneZeroGetTwoAux ==
    (GuidesDrawn /\ TargetIsTriple) =>
        LET t == call.guide_to[1] IN
        IF Cardinality(OnesOf(t)) = 2 /\ \E i \in 1..3 : t[i] = 0
        THEN AuxAreFrom(OnesOf(t), t)
        ELSE AuxDrawn = << >>

C1_Witness ==
    /\ GuidesDrawn
    /\ call.guide_to = Some(<<Den, 0, Den>>)
    /\ AuxDrawn = <<Line("aux", <<Den, 0, 0>>, <<Den, 0, Den>>, "--"),
                    Line("aux", <<0, 0, Den>>, <<Den, 0, Den>>, "--")>>

ClaimUnits == {<<Den, 0, 0>>, <<0, Den, 0>>, <<0, 0, Den>>}

\* the edge runs between the origin and one of the three unit axis points
OriginToUnit(p, q) == (p = O /\ q \in ClaimUnits) \/ (q = O /\ p \in ClaimUnits)

Stroked(p, q) == Line("edge", p, q, "--") \in Range(fig.edges)

\* C2: with O = origin, A = v1, B = v1 + v2, D = v2, an edge of O-A, A-B, B-D,
\* D-O is left unstroked iff suppression is enabled and the edge runs between
\* the origin and a unit axis point; with suppression disabled all four are
\* stroked; v1 = (1,0,0), v2 = (0,0,1) with suppression strokes exactly A-B and
\* B-D; an edge between two non-origin points is always stroked.
C2_EdgeSuppression ==
    ParaDrawn =>
        LET q == call.parallelogram[1]
            A == Get(q.v1, O)
            D == Get(q.v2, O)
            B == <<A[1] + D[1], A[2] + D[2], A[3] + D[3]>>
            enabled == Get(q.skip_axis_edges, TRUE)
            E == << <<O, A>>, <<A, B>>, <<B, D>>, <<D, O>> >>
            kept == {k \in 1..4 : ~(enabled /\ OriginToUnit(E[k][1], E[k][2]))}
        IN /\ \A k \in 1..4 : Stroked(E[k][1], E[k][2]) <=> k \in kept
           /\ Len(fig.edges) = Cardinality(kept)
           /\ ~enabled => Len(fig.edges) = 4
           /\ \A k \in 1..4 : (E[k][1] # O /\ E[k][2] # O) => Stroked(E[k][1], E[k][2])
           /\ (enabled /\ A = <<Den, 0, 0>> /\ D = <<0, 0, Den>>) =>
                 fig.edges = <<Line("edge", A, B, "--"), Line("edge", B, D, "--")>>

C2_Witness ==
    /\ ParaDrawn
    /\ call.parallelogram[1].v1 = Some(<<Den, 0, 0>>)
    /\ call.parallelogram[1].v2 = Some(<<0, 0, Den>>)
    /\ call.parallelogram[1].skip_axis_edges = Some(TRUE)
    /\ Len(fig.edges) = 2

\* the axes of the current icon call have been drawn
AxesDrawn == IsIcon /\ phase \in {"guides", "para", "save", "close"}

\* C3: selector x, y or z gives that axis opacity 1.0 and the other two
\* dim_alpha; selector all_dim or none (the string) gives all three dim_alpha;
\* an absent selector gives all three 1.0; no axis gets any other opacity.
C3_EmphasisOpacity ==
    AxesDrawn =>
        LET n == call.normal_axis
            d == call.dim_alpha
        IN /\ n = StrSel(S_x) => fig.alpha = <<100, d, d>>
           /\ n = StrSel(S_y) => fig.alpha = <<d, 100, d>>
           /\ n = StrSel(S_z) => fig.alpha = <<d, d, 100>>
           /\ n \in {StrSel(S_all_dim), StrSel(S_none)} => fig.alpha = <<d, d, d>>
           /\ n = None => fig.alpha = <<100, 100, 100>>
           /\ \A i \in 1..3 : fig.alpha[i] \in {100, d}

C3_Witness ==
    /\ AxesDrawn
    /\ call.normal_axis = StrSel(S_y)
    /\ call.dim_alpha = 35
    /\ fig.alpha = <<35, 100, 35>>

BasesWritten == {w[1] : w \in Range(written)}

\* C4 as stated: at the end of a run without failures, for every base name,
\* <name>.png has been written iff <name>.svg has been written.
C4_EveryBaseHasBoth ==
    status = "done" =>
        \A b \in BasesWritten : WasWritten(<<b, ".png">>) <=> WasWritten(<<b, ".svg">>)

\* C4 amended: every base name other than 3d_axis_icon has both its .png and
\* its .svg written, with identical drawn content, the vector file never
\* before the raster one; the direct create_3d_axis_icon() call that opens
\* __main__ writes 3d_axis_icon.png only.
C4_EverySaveBothHasBoth ==
    /\ \A b \in BasesWritten : WasWritten(<<b, ".svg">>) => WasWritten(<<b, ".png">>)
    /\ status = "done" =>
        /\ \A b \in BasesWritten \ {"3d_axis_icon"} :
              /\ WasWritten(<<b, ".png">>)
              /\ WasWritten(<<b, ".svg">>)
              /\ disk[<<b, ".png">>] = disk[<<b, ".svg">>]
        /\ WasWritten(<<"3d_axis_icon", ".png">>)
        /\ ~WasWritten(<<"3d_axis_icon", ".svg">>)

C4_Witness ==
    /\ status = "done"
    /\ WasWritten(<<"axis_dim_110", ".png">>)
    /\ WasWritten(<<"axis_dim_110", ".svg">>)
    /\ Len(disk[<<"axis_dim_110", ".svg">>].guides) = 3

PairOf(bases) == {<<b, e>> : b \in bases, e \in {".png", ".svg"}}

\* C5 as stated: the run writes exactly the pairs of the 13 named variants,
\* of the default and high-resolution icons and of the composite, each path
\* once.
C5_ExactlyPairs ==
    status = "done" =>
        /\ Range(written) = PairOf(Range(names) \cup {"axis_standard", "axis_hires", "axis_reference_grid"})
        /\ NoDuplicates(written)

\* C5 amended: the run writes exactly the pairs of the 13 named variants, the
\* axis_standard and axis_hires pairs, the composite pair and the single
\* raster file 3d_axis_icon.png (33 files); no path is written twice.
C5_ExactOutputs ==
    /\ NoDuplicates(written)
    /\ status = "done" =>
        /\ Cardinality(Range(names)) = 13
        /\ Range(written) =
              PairOf(Range(names)) \cup PairOf({"axis_standard", "axis_hires"})
                \cup PairOf({"axis_reference_grid"}) \cup {<<"3d_axis_icon", ".png">>}
        /\ Len(written) = 33

C5_Witness ==
    /\ status = "done"
    /\ Len(written) = 33
    /\ WasWritten(<<"axis_diag_111", ".svg">>)
    /\ WasWritten(GridSvg)

Loadable(n) == <<n, ".png">> \in DOMAIN disk /\ <<n, ".png">> \notin corrupt

ExpectedWrites ==
    [i \in 1..(Len(Program) - 1) |-> SavedPath(Program[i])] \o <<GridPng, GridSvg>>

\* C7: the files written so far are always a prefix of the fixed sequence of
\* writes; once a render call has failed the run has stopped at that call, so
\* only the files of the calls before it are written and the composite files
\* are not; and whenever create_reference_grid runs, all 13 raster files it
\* reads were written earlier in the same run.
C7_FixedOrderAbortOnFailure ==
    /\ IsPrefix(written, ExpectedWrites)
    /\ (status = "failed" /\ IsIcon) =>
          /\ Len(written) = pc - 1
          /\ ~WasWritten(GridPng) /\ ~WasWritten(GridSvg)
    /\ (IsGrid /\ phase # "idle") =>
          \A k \in DOMAIN names : WasWritten(<<names[k], ".png">>)
    /\ status = "done" => written = ExpectedWrites

C7_Witness ==
    /\ status = "failed" /\ IsIcon
    /\ call.output_path = <<"axis_dim_011", ".svg">>
    /\ WasWritten(<<"axis_dim_011", ".png">>)
    /\ ~WasWritten(<<"axis_dim_011", ".svg">>)

BadGuide == call.guide_to # None /\ Len(call.guide_to[1]) # 3

BadPara ==
    /\ call.parallelogram # None
    /\ \/ Len(Get(call.parallelogram[1].v1, O)) < 3
       \/ Len(Get(call.parallelogram[1].v2, O)) < 3

\* C8 as stated: a call given a guide target that is not a triple, or an edge
\* vector with fewer than three components, never gets past the block that
\* reads it and writes no file.
C8_BadGeometryPropagates ==
    IsIcon =>
        /\ BadGuide => (phase \in {"enter", "guides"} /\ written = << >>)
        /\ BadPara => (phase \in {"enter", "guides", "para"} /\ written = << >>)

\* C8 amended: an edge vector with fewer than three components is not
\* handled: the call never gets past the parallelogram block, fails there and
\* writes no file. A guide target that is not a triple is handled: it is
\* replaced by (0, 0, 0), the main line is drawn from the origin to the
\* origin, and the guide block never fails.
C8_BadVectorPropagatesBadGuideHandled ==
    IsIcon =>
        /\ BadPara =>
              /\ phase \in {"enter", "guides", "para"}
              /\ written = << >>
              /\ status = "failed" => phase = "para"
        /\ ~(status = "failed" /\ phase = "guides")
        /\ (BadGuide /\ GuidesDrawn) => fig.guides[1] = Line("main", O, O, "-")

C8_Witness ==
    /\ IsIcon /\ BadPara /\ ~BadGuide
    /\ status = "failed" /\ phase = "para"
    /\ open_figs = 1
    /\ written = << >>

\* C9: at most one figure is open in every state of the full run, and none is
\* open between calls or at the end, however many renders have been made.
C9_FiguresClosed ==
    /\ open_figs <= 1
    /\ phase = "idle" => open_figs = 0
    /\ status = "done" => open_figs = 0

C9_Witness ==
    /\ phase = "idle" /\ status = "running"
    /\ pc = 31
    /\ Len(written) = 30
    /\ open_figs = 0

ExtraCount == IF call.extra_guides = None THEN 0 ELSE Len(call.extra_guides[1])

====
